---------------------------- MODULE Spec2Model ----------------------------
(***************************************************************************)
(* Quick Definition background service worker (src/extension/background.js)*)
(*                                                                         *)
(* A JavaScript string is a sequence of one-character strings; markup      *)
(* tokens such as "{it}" are single elements of the sequence.  A JavaScript*)
(* object key that may be absent is a set: {} when the key is absent and   *)
(* {v} when it holds v.                                                    *)
(***************************************************************************)
EXTENDS Integers, Sequences, FiniteSets, TLC

VARIABLES
    settings,   \* chrome.storage.local: the six option keys
    cache,      \* chrome.storage.local: the qdp_... keys, key -> stored value
    req,        \* per request: position in the listener, its locals, its response
    changes,    \* number of settings writes made by the options page so far
    pin,        \* inputs of the pure-function specifications
    pout        \* outputs of the pure-function specifications

vars == <<settings, cache, req, changes, pin, pout>>

----------------------------------------------------------------------------
(* Bounds *)

MaxCount == 2        \* largest stored exampleCount
MaxKeyCount == 1     \* largest exampleCount of the key derivations
MaxChanges == 1      \* settings writes by the options page
MaxSenses == 2       \* senses of a projected Entry
MaxExamples == 3     \* examples of a sense
MaxForms == 2        \* forms of a Provider B payload

----------------------------------------------------------------------------
(* Strings *)

Absent == {}
Some(v) == {v}
Has(o) == o # {}
Val(o) == CHOOSE v \in o : TRUE
Opt(S) == {Absent} \cup {Some(v) : v \in S}

sUndefined == <<"u","n","d","e","f","i","n","e","d">>
sCambridge == <<"c","a","m","b","r","i","d","g","e">>
sGemini == <<"g","e","m","i","n","i">>
sMerriamWebster == <<"m","e","r","r","i","a","m","-","w","e","b","s","t","e","r">>
sRelevant == <<"r","e","l","e","v","a","n","t">>
sAll == <<"a","l","l">>
sNone == <<"n","o","n","e">>
sQdp == <<"q","d","p">>
sUs == <<"_">>

Digit(n) == <<"0","1","2","3","4","5","6","7","8","9">>[n + 1]

RECURSIVE NumStr(_)
NumStr(n) == IF n < 10 THEN <<Digit(n)>> ELSE NumStr(n \div 10) \o <<Digit(n % 10)>>

LowerChar(c) ==
    CASE c = "A" -> "a"
      [] c = "B" -> "b"
      [] c = "P" -> "p"
      [] c = "R" -> "r"
      [] OTHER -> c

toLowerCase(s) == [i \in 1..Len(s) |-> LowerChar(s[i])]

IsSpace(c) == c \in {" ", "\t", "\n"}

\* `${settings.definitionScope}`: an absent key prints as "undefined"
ScopeText(o) == IF Has(o) THEN Val(o) ELSE sUndefined

\* `${settings.exampleCount}`
CountText(o) == IF Has(o) THEN NumStr(Val(o)) ELSE sUndefined

\* settings.k || dflt, for a string-valued key
StrOr(o, dflt) == IF Has(o) /\ Val(o) # <<>> THEN Val(o) ELSE dflt

----------------------------------------------------------------------------
(* Cache Key Deriver *)

sourceOf(s) == StrOr(s.preferredSource, sCambridge)

targetLanguageOf(s) == StrOr(s.targetLanguage, sNone)

\* the key without the scope field
displaySettingsCacheKeyNoScope(word, s) ==
    sQdp \o sUs \o sourceOf(s) \o sUs \o word \o sUs \o CountText(s.exampleCount)
         \o sUs \o targetLanguageOf(s)

displaySettingsCacheKey(word, s) ==
    sQdp \o sUs \o sourceOf(s) \o sUs \o word \o sUs \o ScopeText(s.definitionScope)
         \o sUs \o CountText(s.exampleCount) \o sUs \o targetLanguageOf(s)

----------------------------------------------------------------------------
(* Results of a call that may return null or throw *)

RNull == [kind |-> "null"]
RThrow == [kind |-> "throw"]
REntry(e) == [kind |-> "entry", entry |-> e]

sSlash == <<"/">>
sUnknown == <<"u","n","k","n","o","w","n">>
sNoDefinitionFound == <<"No definition found.">>
sNoDefinitionTextFound == <<"No definition text found.">>
sMwAudioBase == <<"https://media.merriam-webster.com/audio/prons/en/us/wav/">>
sWav == <<".wav">>

\* s.startsWith(p)
startsWith(s, p) == Len(s) >= Len(p) /\ SubSeq(s, 1, Len(p)) = p

\* s.replace(/a|b/g, ''): every occurrence of a token of toks removed
RECURSIVE Strip(_, _)
Strip(s, toks) ==
    IF s = <<>> THEN <<>>
    ELSE IF Head(s) \in toks THEN Strip(Tail(s), toks)
    ELSE <<Head(s)>> \o Strip(Tail(s), toks)

\* s.split(':')[0]
RECURSIVE BeforeColon(_)
BeforeColon(s) ==
    IF s = <<>> \/ Head(s) = ":" THEN <<>>
    ELSE <<Head(s)>> \o BeforeColon(Tail(s))

\* array.find(test): the least index among those that pass the test, 0 when none
FirstOf(indices) ==
    IF indices = {} THEN 0 ELSE CHOOSE i \in indices : \A j \in indices : i <= j

----------------------------------------------------------------------------
(* Provider A adapter *)

\* the directory without the rule for a leading underscore and digit
MwSubdirNoNumber(audioFile) ==
    IF startsWith(audioFile, <<"b","i","x">>) THEN <<"b","i","x">>
    ELSE IF startsWith(audioFile, <<"g","g">>) THEN <<"g","g">>
    ELSE IF audioFile = <<>> THEN <<>> ELSE <<audioFile[1]>>

\* line 24: the directory of the audio file
MwSubdir(audioFile) ==
    IF startsWith(audioFile, <<"b","i","x">>) THEN <<"b","i","x">>
    ELSE IF startsWith(audioFile, <<"g","g">>) THEN <<"g","g">>
    ELSE IF Len(audioFile) >= 2 /\ audioFile[1] = "_"
            /\ audioFile[2] \in {"0","1","2","3","4","5","6","7","8","9"}
         THEN <<"number">>
    ELSE IF audioFile = <<>> THEN <<>> ELSE <<audioFile[1]>>

\* lines 19-27: [throws, pron, url]
MwPronunciation(entry) ==
    IF Has(entry.hwi) /\ Has(Val(entry.hwi).prs) /\ Len(Val(Val(entry.hwi).prs)) > 0
    THEN LET pr == Val(Val(entry.hwi).prs)[1]
             pron == sSlash \o (IF Has(pr.mw) THEN Val(pr.mw) ELSE sUndefined) \o sSlash
         IN  IF Has(pr.sound)
             THEN IF Has(Val(pr.sound).audio)
                  THEN LET audioFile == Val(Val(pr.sound).audio)
                       IN  [throws |-> FALSE, pron |-> pron,
                            url |-> sMwAudioBase \o MwSubdir(audioFile) \o sSlash
                                      \o audioFile \o sWav]
                  ELSE [throws |-> TRUE, pron |-> pron, url |-> <<>>]
             ELSE [throws |-> FALSE, pron |-> pron, url |-> <<>>]
    ELSE [throws |-> FALSE, pron |-> <<>>, url |-> <<>>]

\* line 33, inside try/catch: the examples found by the walk, none when it throws
MwVisExample(sseq) ==
    IF ~sseq.nested THEN <<>>
    ELSE IF ~Has(sseq.dt) THEN <<>>
    ELSE LET dt == Val(sseq.dt)
             i == FirstOf({j \in 1..Len(dt) : dt[j].tag = "vis"})
         IN  IF i = 0 THEN <<>>
             ELSE IF Len(dt[i].vis) = 0 \/ ~Has(dt[i].vis[1].t) THEN <<>>
             ELSE <<[text |-> Some(Strip(Val(dt[i].vis[1].t), {"{wi}", "{/wi}"})),
                     translation |-> Absent]>>

\* lines 29-34: [throws, example]
MwExample(entry) ==
    IF Has(entry.suppl) /\ Has(Val(entry.suppl).examples)
       /\ Len(Val(Val(entry.suppl).examples)) > 0
    THEN LET first == Val(Val(entry.suppl).examples)[1]
         IN  IF Has(first.t)
             THEN [throws |-> FALSE,
                   example |-> <<[text |-> Some(Strip(Val(first.t), {"{it}", "{/it}"})),
                                  translation |-> Absent]>>]
             ELSE [throws |-> TRUE, example |-> <<>>]
    ELSE IF Has(entry.def)
    THEN IF Len(Val(entry.def)) = 0 THEN [throws |-> TRUE, example |-> <<>>]
         ELSE IF Has(Val(entry.def)[1].sseq)
         THEN [throws |-> FALSE, example |-> MwVisExample(Val(Val(entry.def)[1].sseq))]
         ELSE [throws |-> FALSE, example |-> <<>>]
    ELSE [throws |-> FALSE, example |-> <<>>]

\* the last short definition instead of the first
MwDefinitionTextLast(shortdef) ==
    IF Len(shortdef) > 0 /\ shortdef[Len(shortdef)] # <<>> THEN shortdef[Len(shortdef)]
    ELSE sNoDefinitionFound

\* line 28: entry.shortdef[0] || 'No definition found.'
MwDefinitionText(shortdef) ==
    IF Len(shortdef) > 0 /\ shortdef[1] # <<>> THEN shortdef[1] ELSE sNoDefinitionFound

normalizeMwData(mwData) ==
    IF mwData.kind = "null" THEN RNull
    ELSE IF Len(mwData.items) = 0 THEN RNull
    ELSE IF mwData.items[1].t = "string" THEN RNull
    ELSE IF mwData.items[1].t = "null" THEN RThrow
    ELSE LET entry == mwData.items[1]
             p == MwPronunciation(entry)
             x == MwExample(entry)
         IN  IF p.throws \/ ~Has(entry.shortdef) \/ x.throws
                \/ ~Has(entry.meta) \/ ~Has(Val(entry.meta).id)
             THEN RThrow
             ELSE LET pos == StrOr(entry.fl, sUnknown)
                      definition == [pos |-> pos,
                                     text |-> MwDefinitionText(Val(entry.shortdef)),
                                     translation |-> Absent,
                                     example |-> Some(x.example)]
                  IN  REntry([word |-> Some(BeforeColon(Val(Val(entry.meta).id))),
                              translation |-> Absent,
                              pos |-> <<pos>>,
                              verbs |-> <<>>,
                              pronunciation |-> <<[lang |-> <<"u","s">>, pron |-> p.pron,
                                                   url |-> p.url]>>,
                              definition |-> Some(<<definition>>)])

----------------------------------------------------------------------------
(* Provider B adapter *)

\* lines 48-51: one example; a string, an object or null
GeminiExample(ex) ==
    IF ex.kind = "string" THEN [text |-> ex.text, translation |-> Absent]
    ELSE [text |-> ex.text, translation |-> ex.translation]

\* lines 43-52: the sense of one form; the form has a first definition
GeminiDefinition(form) ==
    LET firstDef == Val(form.definitions)[1]
    IN  [pos |-> StrOr(form.partOfSpeech, sUnknown),
         text |-> StrOr(firstDef.definition, sNoDefinitionTextFound),
         translation |-> (IF Has(firstDef.definitionTranslation)
                             /\ Val(firstDef.definitionTranslation) # <<>>
                          THEN firstDef.definitionTranslation ELSE Absent),
         example |-> IF Has(firstDef.examples)
                     THEN Some([i \in 1..Len(Val(firstDef.examples)) |->
                                   GeminiExample(Val(firstDef.examples)[i])])
                     ELSE Some(<<>>)]

\* lines 43-50: reading form.definitions[0] and its fields throws
GeminiFormThrows(form) ==
    \/ ~Has(form.definitions)
    \/ Len(Val(form.definitions)) = 0
    \/ /\ Has(Val(form.definitions)[1].examples)
       /\ \E i \in 1..Len(Val(Val(form.definitions)[1].examples)) :
              Val(Val(form.definitions)[1].examples)[i].kind = "null"

normalizeGeminiData(aiData) ==
    IF aiData.kind = "null" THEN RNull
    ELSE IF ~Has(aiData.forms) \/ Len(Val(aiData.forms)) = 0 THEN RNull
    ELSE LET forms == Val(aiData.forms)
         IN  IF \E i \in 1..Len(forms) : GeminiFormThrows(forms[i]) THEN RThrow
             ELSE LET definitions == [i \in 1..Len(forms) |-> GeminiDefinition(forms[i])]
                  IN  REntry([word |-> (IF Has(aiData.word) /\ Val(aiData.word) # <<>>
                                        THEN aiData.word ELSE aiData.phrase),
                              translation |-> (IF Has(aiData.translation)
                                                  /\ Val(aiData.translation) # <<>>
                                               THEN aiData.translation ELSE Absent),
                              pos |-> [i \in 1..Len(definitions) |-> definitions[i].pos],
                              verbs |-> <<>>,
                              pronunciation |-> <<[lang |-> <<"u","s">>,
                                                   pron |-> StrOr(aiData.pronunciation, <<>>),
                                                   url |-> <<>>]>>,
                              definition |-> Some(definitions)])

----------------------------------------------------------------------------
(* Preference Projector *)

\* line 68
scopeOf(s) == StrOr(s.definitionScope, sRelevant)

\* settings.exampleCount || 1, which takes a stored 0 for absent
countOfOr(s) == IF Has(s.exampleCount) /\ Val(s.exampleCount) # 0 THEN Val(s.exampleCount) ELSE 1

\* line 69
countOf(s) == IF Has(s.exampleCount) THEN Val(s.exampleCount) ELSE 1

\* a cut that drops one example at a time
TrimDefinitionDropLast(def, count) ==
    IF Has(def.example) /\ Len(Val(def.example)) > count
    THEN [def EXCEPT !.example =
              Some(SubSeq(Val(def.example), 1, Len(Val(def.example)) - 1))]
    ELSE def

\* lines 77-83: one sense with its examples cut
TrimDefinition(def, count) ==
    IF Has(def.example) /\ Len(Val(def.example)) > count
    THEN [def EXCEPT !.example = Some(SubSeq(Val(def.example), 1, count))]
    ELSE def

\* the last sense kept instead of the first
DefinitionsToUseLast(definition, scope) ==
    IF scope = sRelevant /\ Len(definition) > 1 THEN <<definition[Len(definition)]>>
    ELSE definition

\* lines 71-75
DefinitionsToUse(definition, scope) ==
    IF scope = sRelevant /\ Len(definition) > 1 THEN <<definition[1]>> ELSE definition

applyDisplayPreferences(data, s) ==
    IF ~Has(data.definition) THEN RThrow
    ELSE LET definitionsToUse == DefinitionsToUse(Val(data.definition), scopeOf(s))
             finalDefinitions == [i \in 1..Len(definitionsToUse) |->
                                     TrimDefinition(definitionsToUse[i], countOf(s))]
         IN  REntry([data EXCEPT !.definition = Some(finalDefinitions)])

----------------------------------------------------------------------------
(* Inputs of the listener: messages, stored settings, provider payloads *)

\* the requests that may be in flight at once
Requests == {1, 2}

MkSettings(src, key, lang, scope, count, tts) ==
    [preferredSource |-> src, mwApiKey |-> key, targetLanguage |-> lang,
     definitionScope |-> scope, exampleCount |-> count, ttsEnabled |-> tts]

sKey == <<"k">>
sEs == <<"e","s">>

\* what the options page may have stored
SettingsChoices ==
    { MkSettings(Absent, Absent, Absent, Absent, Absent, Absent),
      MkSettings(Some(sGemini), Absent, Some(sEs), Some(sAll), Some(1), Some(TRUE)),
      MkSettings(Some(sMerriamWebster), Absent, Absent, Some(sRelevant), Some(0), Absent),
      MkSettings(Some(sMerriamWebster), Some(sKey), Absent, Some(sRelevant), Some(0), Absent),
      MkSettings(Some(sCambridge), Absent, Some(sNone), Some(sAll), Some(MaxCount), Absent) }

\* message.word
Terms == { <<"A">>, <<"a", " ">>, <<"a", " ", "b">> }

GEx(t) == [kind |-> "string", text |-> Some(t), translation |-> Absent]
GExObj(t, tr) == [kind |-> "object", text |-> Some(t), translation |-> Some(tr)]
GExNull == [kind |-> "null", text |-> Absent, translation |-> Absent]

GDef(text, examples) ==
    [definition |-> text, definitionTranslation |-> Absent, examples |-> examples]

GForm(pos, definitions) == [partOfSpeech |-> pos, definitions |-> definitions]

GData(word, phrase, pronunciation, forms) ==
    [kind |-> "obj", word |-> word, phrase |-> phrase, translation |-> Absent,
     pronunciation |-> pronunciation, forms |-> forms]

JsonNull == [kind |-> "null"]

Ex(n) == <<"x", Digit(n)>>

\* n examples "x1" .. "xn", as strings
GExamples(n) == [i \in 1..n |-> GEx(Ex(i))]

GeminiBodies ==
    { JsonNull,
      GData(Some(<<"a">>), Absent, Absent,
            Some(<<GForm(Some(<<"n">>), Some(<<GDef(Some(<<"d","1">>), Some(GExamples(2)))>>)),
                   GForm(Absent, Some(<<GDef(Some(<<"d","2">>), Absent)>>))>>)),
      GData(Absent, Some(<<"a"," ","b">>), Some(<<"p">>),
            Some(<<GForm(Some(<<"v">>), Some(<<GDef(Absent, Some(GExamples(1)))>>))>>)),
      GData(Absent, Absent, Absent,
            Some(<<GForm(Some(<<"n">>), Some(<<GDef(Some(<<"d","1">>), Absent)>>))>>)),
      GData(Some(<<"a">>), Absent, Absent, Some(<<GForm(Some(<<"n">>), Absent)>>)),
      GData(Some(<<"a">>), Absent, Absent, Absent) }

CSense(pos, text, example) ==
    [pos |-> pos, text |-> text, translation |-> Absent, example |-> example]

CEx(n) == [text |-> Some(Ex(n)), translation |-> Absent]

CExamples(n) == [i \in 1..n |-> CEx(i)]

CPron(pron, url) == [lang |-> <<"u","s">>, pron |-> pron, url |-> url]

CData(word, pronunciation, definition) ==
    [kind |-> "obj", word |-> word, translation |-> Absent,
     pos |-> IF Has(definition)
             THEN [i \in 1..Len(Val(definition)) |-> Val(definition)[i].pos] ELSE <<>>,
     verbs |-> <<>>, pronunciation |-> pronunciation, definition |-> definition]

sUrl == <<"u",".","m","p","3">>

CambridgeBodies ==
    { JsonNull,
      CData(Some(<<"a">>), Some(<<CPron(Some(<<"e","I">>), Some(sUrl))>>),
            Some(<<CSense(<<"n">>, <<"c","1">>, Some(CExamples(2))),
                   CSense(<<"v">>, <<"c","2">>, Absent)>>)),
      CData(Some(<<"a">>), Some(<<>>), Some(<<>>)),
      CData(Some(<<"a">>), Absent, Absent),
      CData(Absent, Absent, Absent) }

MwPr(mw, sound) == [mw |-> mw, sound |-> sound]

MwObj(id, fl, shortdef, prs, suppl, def) ==
    [t |-> "object", meta |-> Some([id |-> id]), fl |-> fl, shortdef |-> shortdef,
     hwi |-> Some([prs |-> prs]), suppl |-> suppl, def |-> def]

MwArray(items) == [kind |-> "array", items |-> items]

MwSuggestion == [t |-> "string"]

sIdA == <<"a", ":", "1">>

MwBodies ==
    { JsonNull,
      MwArray(<<>>),
      MwArray(<<MwSuggestion>>),
      MwArray(<<MwObj(Some(sIdA), Some(<<"n">>), Some(<<<<"m","1">>, <<"m","2">>>>),
                      Some(<<MwPr(Some(<<"e","I">>), Some([audio |-> Some(<<"a","0","1">>)]))>>),
                      Some([examples |-> Some(<<[t |-> Some(<<"{it}","x","{/it}">>)]>>)]),
                      Absent)>>),
      MwArray(<<MwObj(Some(<<":","1">>), Absent, Some(<<>>), Absent, Absent, Absent)>>),
      MwArray(<<MwObj(Some(sIdA), Absent, Absent, Absent, Absent, Absent)>>) }

\* how a fetch followed by res.json() may end
Outcomes(bodies) ==
    {[st |-> "rejected"], [st |-> "badjson"]} \cup {[st |-> "json", body |-> b] : b \in bodies}

----------------------------------------------------------------------------
(* The getDefinition branch of the message listener *)

\* line 116: word.split(/\s+/).filter(w => w.length > 0).length
RECURSIVE WordCount(_)
WordCount(s) ==
    IF s = <<>> THEN 0
    ELSE IF IsSpace(Head(s)) THEN WordCount(Tail(s))
    ELSE IF Len(s) = 1 \/ IsSpace(s[2]) THEN 1 + WordCount(Tail(s))
    ELSE WordCount(Tail(s))

\* a phrase only from three words on
isPhraseFromThree(word) == WordCount(word) > 2

\* line 117
isPhrase(word) == WordCount(word) > 1

\* settings.ttsEnabled || false
ttsOf(s) == Has(s.ttsEnabled) /\ Val(s.ttsEnabled)

Success(data, s) == [status |-> "success", data |-> data, ttsEnabled |-> ttsOf(s)]
Error(message) == [status |-> "error", message |-> message]

Fulfilled(v) == [ok |-> TRUE, v |-> v]
Rejected(message) == [ok |-> FALSE, message |-> message]

mFetch == "Failed to fetch"
mJson == "Unexpected token in JSON"
mType == "Cannot read properties of undefined"
mGemini == "Gemini AI definition not found or invalid format."
mNotFound == "Definition not found or API returned invalid format."
mNoKey == "Merriam-Webster API key is not set."

\* a UTF-16 code unit of a surrogate pair, on its own
sLoneSurrogate == "U+D800"

\* encodeURIComponent(str) throws a URIError
UriMalformed(str) == \E i \in 1..Len(str) : str[i] = sLoneSurrogate

\* encodeURIComponent(str), for a str it does not throw on
RECURSIVE encodeURIComponent(_)
encodeURIComponent(str) ==
    IF str = <<>> THEN <<>>
    ELSE (IF Head(str) = " " THEN <<"%", "2", "0">> ELSE <<Head(str)>>)
         \o encodeURIComponent(Tail(str))

\* lines 195-197: .replace(/[!'()*]/g, c => '%' + c.charCodeAt(0).toString(16))
RECURSIVE EscapeReserved(_)
EscapeReserved(str) ==
    IF str = <<>> THEN <<>>
    ELSE (CASE Head(str) = "!" -> <<"%", "2", "1">>
            [] Head(str) = "'" -> <<"%", "2", "7">>
            [] Head(str) = "(" -> <<"%", "2", "8">>
            [] Head(str) = ")" -> <<"%", "2", "9">>
            [] Head(str) = "*" -> <<"%", "2", "a">>
            [] OTHER -> <<Head(str)>>)
         \o EscapeReserved(Tail(str))

sSentence == <<"s","e","n","t","e","n","c","e">>

\* line 198
sentenceCacheKey(sentence, targetLanguage) ==
    sQdp \o sUs \o sSentence \o sUs \o EscapeReserved(encodeURIComponent(sentence))
         \o sUs \o targetLanguage

IdleRequest ==
    [type |-> "none", pc |-> "idle", word |-> <<>>, snap |-> MkSettings({}, {}, {}, {}, {}, {}),
     key |-> <<>>, path |-> "none", got |-> <<>>, log |-> <<>>, responses |-> <<>>,
     stale |-> FALSE]

\* chrome.storage.local.set({[key]: value})
StorageSet(store, key, value) ==
    [k \in DOMAIN store \cup {key} |-> IF k = key THEN value ELSE store[k]]

\* line 92-94: the message arrives, the settings are requested
Receive(r, term) ==
    /\ req[r].pc = "idle"
    /\ req' = [req EXCEPT ![r].type = "getDefinition", ![r].pc = "getSettings",
                          ![r].word = toLowerCase(term)]
    /\ UNCHANGED <<settings, cache, changes, pin, pout>>

\* lines 94-100: the settings arrive, the key is derived, the cache is requested
SettingsCallback(r) ==
    /\ req[r].pc = "getSettings"
    /\ req' = [req EXCEPT ![r].pc = "getCache",
                          ![r].snap = settings,
                          ![r].key = displaySettingsCacheKey(req[r].word, settings)]
    /\ UNCHANGED <<settings, cache, changes, pin, pout>>

\* the key check left out
mwApiKeyUnchecked(s) == FALSE

\* line 150: !mwApiKey
mwApiKeyMissing(s) == ~(Has(s.mwApiKey) /\ Val(s.mwApiKey) # <<>>)

\* lines 100-161: the cache answers; a hit responds, a miss starts the fetches
CacheCallback(r) ==
    /\ req[r].pc = "getCache"
    /\ LET q == req[r]
           source == sourceOf(q.snap)
           read == Append(q.log, "cacheGet")
       IN  req' = [req EXCEPT ![r] =
             IF q.key \in DOMAIN cache
             THEN [q EXCEPT !.pc = "done", !.path = "hit",
                            !.log = Append(read, "sendResponse"),
                            !.responses = Append(@, Success(cache[q.key], q.snap))]
             ELSE IF source = sGemini
             THEN IF UriMalformed(q.word)
                  THEN [q EXCEPT !.pc = "crashed", !.path = "uriError", !.log = read]
                  ELSE IF isPhrase(q.word)
                  THEN [q EXCEPT !.pc = "fetching", !.path = "geminiPhrase",
                                 !.log = Append(read, "fetch gemini")]
                  ELSE [q EXCEPT !.pc = "fetching", !.path = "geminiWord",
                                 !.log = read \o <<"fetch gemini", "fetch cambridge audio">>]
             ELSE IF source = sMerriamWebster
             THEN IF mwApiKeyMissing(q.snap)
                  THEN [q EXCEPT !.pc = "done", !.path = "noKey",
                                 !.log = Append(read, "sendResponse"),
                                 !.responses = Append(@, Error(mNoKey))]
                  ELSE [q EXCEPT !.pc = "fetching", !.path = "mw",
                                 !.log = Append(read, "fetch merriam-webster")]
             ELSE [q EXCEPT !.pc = "fetching", !.path = "cambridge",
                            !.log = Append(read, "fetch cambridge")]]
    /\ UNCHANGED <<settings, cache, changes, pin, pout>>

\* fetch(url).then(res => res.json()): the promise of the parsed body
JsonPromise(o) ==
    IF o.st = "rejected" THEN Rejected(mFetch)
    ELSE IF o.st = "badjson" THEN Rejected(mJson)
    ELSE Fulfilled(o.body)

\* line 133: fetch(url).then(res => res.json().catch(() => null))
AudioPromise(o) ==
    IF o.st = "rejected" THEN Rejected(mFetch)
    ELSE IF o.st = "badjson" THEN Fulfilled(JsonNull)
    ELSE Fulfilled(o.body)

\* lines 123-127 and 135-136
GeminiThen(geminiData) ==
    LET normalizedGemini == normalizeGeminiData(geminiData)
    IN  IF normalizedGemini.kind = "throw" THEN Rejected(mType)
        ELSE IF normalizedGemini.kind = "null" THEN Rejected(mGemini)
        ELSE Fulfilled(normalizedGemini)

\* line 138: pronunciation.find(p => p.url) || pronunciation[0]
CambridgePron(pronunciation) ==
    LET i == FirstOf({j \in 1..Len(pronunciation) :
                        Has(pronunciation[j].url) /\ Val(pronunciation[j].url) # <<>>})
    IN  IF i = 0 THEN pronunciation[1] ELSE pronunciation[i]

\* the phonetic text copied even when the first provider gave one
MergeAudioAlwaysPhonetic(entry, cambridgeData) ==
    IF cambridgeData.kind # "null" /\ Has(cambridgeData.pronunciation)
       /\ Len(Val(cambridgeData.pronunciation)) > 0
    THEN LET cambridgePron == CambridgePron(Val(cambridgeData.pronunciation))
             first == entry.pronunciation[1]
             merged == [first EXCEPT
                          !.url = StrOr(cambridgePron.url, <<>>),
                          !.pron = IF Has(cambridgePron.pron)
                                      /\ Val(cambridgePron.pron) # <<>>
                                   THEN Val(cambridgePron.pron) ELSE first.pron]
         IN  [entry EXCEPT !.pronunciation = [@ EXCEPT ![1] = merged]]
    ELSE entry

\* lines 137-145: the audio of the second provider put into the first pronunciation
MergeAudio(entry, cambridgeData) ==
    IF cambridgeData.kind # "null" /\ Has(cambridgeData.pronunciation)
       /\ Len(Val(cambridgeData.pronunciation)) > 0
    THEN LET cambridgePron == CambridgePron(Val(cambridgeData.pronunciation))
             first == entry.pronunciation[1]
             merged == [first EXCEPT
                          !.url = StrOr(cambridgePron.url, <<>>),
                          !.pron = IF first.pron = <<>> /\ Has(cambridgePron.pron)
                                      /\ Val(cambridgePron.pron) # <<>>
                                   THEN Val(cambridgePron.pron) ELSE first.pron]
         IN  [entry EXCEPT !.pronunciation = [@ EXCEPT ![1] = merged]]
    ELSE entry

\* lines 131-147: Promise.all of the two fetches, then the merge; the settlements
\* apiPromise may have: when both fetches reject, the one that rejects first decides
GeminiWordPromises(og, oc) ==
    LET g == JsonPromise(og)
        c == AudioPromise(oc)
    IN  IF ~g.ok \/ ~c.ok THEN {p \in {g, c} : ~p.ok}
        ELSE LET n == GeminiThen(g.v)
             IN  IF ~n.ok THEN {n}
                 ELSE {Fulfilled(REntry(MergeAudio(n.v.entry, c.v)))}

\* lines 121-127
GeminiPhrasePromise(og) ==
    LET g == JsonPromise(og)
    IN  IF ~g.ok THEN g ELSE GeminiThen(g.v)

\* lines 155-157
MwPromise(om) ==
    LET m == JsonPromise(om)
    IN  IF ~m.ok THEN m
        ELSE LET n == normalizeMwData(m.v)
             IN  IF n.kind = "throw" THEN Rejected(mType) ELSE Fulfilled(n)

\* line 160
CambridgePromise(oc) ==
    LET c == JsonPromise(oc)
    IN  IF ~c.ok THEN c
        ELSE IF c.v.kind = "null" THEN Fulfilled(RNull) ELSE Fulfilled(REntry(c.v))

\* the canonical Entry stored instead of the projected one
PipelineStoresCanonical(apiPromise, s) ==
    IF ~apiPromise.ok THEN [response |-> Error(apiPromise.message), store |-> {}]
    ELSE LET fullData == apiPromise.v
         IN  IF fullData.kind = "null" \/ ~Has(fullData.entry.word)
                \/ Val(fullData.entry.word) = <<>>
             THEN [response |-> Error(mNotFound), store |-> {}]
             ELSE LET finalData == applyDisplayPreferences(fullData.entry, s)
                  IN  IF finalData.kind = "throw"
                      THEN [response |-> Error(mType), store |-> {}]
                      ELSE [response |-> Success(finalData.entry, s),
                            store |-> {fullData.entry}]

\* the headword check of line 164 left out
PipelineNoHeadwordCheck(apiPromise, s) ==
    IF ~apiPromise.ok THEN [response |-> Error(apiPromise.message), store |-> {}]
    ELSE LET fullData == apiPromise.v
         IN  IF fullData.kind = "null"
             THEN [response |-> Error(mNotFound), store |-> {}]
             ELSE LET finalData == applyDisplayPreferences(fullData.entry, s)
                  IN  IF finalData.kind = "throw"
                      THEN [response |-> Error(mType), store |-> {}]
                      ELSE [response |-> Success(finalData.entry, s),
                            store |-> {finalData.entry}]

\* lines 163-175: what the request sends, and what it stores (a set of at most one value)
Pipeline(apiPromise, s) ==
    IF ~apiPromise.ok THEN [response |-> Error(apiPromise.message), store |-> {}]
    ELSE LET fullData == apiPromise.v
         IN  IF fullData.kind = "null" \/ ~Has(fullData.entry.word)
                \/ Val(fullData.entry.word) = <<>>
             THEN [response |-> Error(mNotFound), store |-> {}]
             ELSE LET finalData == applyDisplayPreferences(fullData.entry, s)
                  IN  IF finalData.kind = "throw"
                      THEN [response |-> Error(mType), store |-> {}]
                      ELSE [response |-> Success(finalData.entry, s),
                            store |-> {finalData.entry}]

\* the projection made with the settings stored when the promise settles
SettleWithStoredSettings(r, got, apiPromise) ==
    LET q == req[r]
        out == Pipeline(apiPromise, settings)
    IN  /\ cache' = IF out.store = {} THEN cache
                    ELSE StorageSet(cache, q.key, Val(out.store))
        /\ req' = [req EXCEPT ![r] =
             [q EXCEPT !.pc = "done",
                       !.got = got,
                       !.log = IF out.store = {} THEN Append(@, "sendResponse")
                               ELSE @ \o <<"cacheSet", "sendResponse">>,
                       !.responses = Append(@, out.response)]]
        /\ UNCHANGED <<settings, changes, pin, pout>>

\* apiPromise.then(...).catch(...) of request r runs; got are the fetches' outcomes
Settle(r, got, apiPromise) ==
    LET q == req[r]
        out == Pipeline(apiPromise, q.snap)
    IN  /\ cache' = IF out.store = {} THEN cache
                    ELSE StorageSet(cache, q.key, Val(out.store))
        /\ req' = [req EXCEPT ![r] =
             [q EXCEPT !.pc = "done",
                       !.got = got,
                       !.log = IF out.store = {} THEN Append(@, "sendResponse")
                               ELSE @ \o <<"cacheSet", "sendResponse">>,
                       !.responses = Append(@, out.response)]]
        /\ UNCHANGED <<settings, changes, pin, pout>>

GeminiPhraseSettles(r) ==
    /\ req[r].pc = "fetching" /\ req[r].path = "geminiPhrase"
    /\ \E og \in Outcomes(GeminiBodies) : Settle(r, <<og>>, GeminiPhrasePromise(og))

GeminiWordSettles(r) ==
    /\ req[r].pc = "fetching" /\ req[r].path = "geminiWord"
    /\ \E og \in Outcomes(GeminiBodies), oc \in Outcomes(CambridgeBodies) :
           \E p \in GeminiWordPromises(og, oc) : Settle(r, <<og, oc>>, p)

MwSettles(r) ==
    /\ req[r].pc = "fetching" /\ req[r].path = "mw"
    /\ \E om \in Outcomes(MwBodies) : Settle(r, <<om>>, MwPromise(om))

CambridgeSettles(r) ==
    /\ req[r].pc = "fetching" /\ req[r].path = "cambridge"
    /\ \E oc \in Outcomes(CambridgeBodies) : Settle(r, <<oc>>, CambridgePromise(oc))

----------------------------------------------------------------------------
(* The translateSentence branch of the message listener *)

mNoLanguage == "Please select a target language in options setting to proceed"
mTranslation == "Translation failed"

NoLanguage == [status |-> "noLanguage", message |-> mNoLanguage]

\* message.text
Sentences == { <<"a", " ", "b", "!">>, <<"a", sLoneSurrogate>> }

\* bodies of the translate endpoint
TranslateBodies ==
    { JsonNull,
      [kind |-> "obj", error |-> Some(mTranslation), translation |-> Absent],
      [kind |-> "obj", error |-> Absent, translation |-> Some(<<"h","o","l","a">>)] }

\* lines 182-185: the message arrives, the two settings are requested
ReceiveSentence(r, text) ==
    /\ req[r].pc = "idle"
    /\ req' = [req EXCEPT ![r].type = "translateSentence", ![r].pc = "getLanguage",
                          ![r].word = text]
    /\ UNCHANGED <<settings, cache, changes, pin, pout>>

\* line 189: !targetLanguage || targetLanguage === 'none'
noTargetLanguage(s) ==
    ~Has(s.targetLanguage) \/ Val(s.targetLanguage) = <<>> \/ Val(s.targetLanguage) = sNone

\* the language check left out
LanguageCallbackUnchecked(r) ==
    /\ req[r].pc = "getLanguage"
    /\ LET q == req[r]
           snap == MkSettings(Absent, Absent, settings.targetLanguage, Absent, Absent,
                              settings.ttsEnabled)
       IN  req' = [req EXCEPT ![r] =
             IF UriMalformed(q.word)
             THEN [q EXCEPT !.pc = "crashed", !.snap = snap, !.path = "uriError"]
             ELSE [q EXCEPT !.pc = "getSentenceCache", !.snap = snap,
                            !.key = sentenceCacheKey(q.word, targetLanguageOf(snap))]]
    /\ UNCHANGED <<settings, cache, changes, pin, pout>>

\* lines 185-200: the two settings arrive; without a language the request is answered,
\* otherwise the key is derived and the cache is requested
LanguageCallback(r) ==
    /\ req[r].pc = "getLanguage"
    /\ LET q == req[r]
           snap == MkSettings(Absent, Absent, settings.targetLanguage, Absent, Absent,
                              settings.ttsEnabled)
       IN  req' = [req EXCEPT ![r] =
             IF noTargetLanguage(snap)
             THEN [q EXCEPT !.pc = "done", !.snap = snap, !.path = "noLanguage",
                            !.log = Append(@, "sendResponse"),
                            !.responses = Append(@, NoLanguage)]
             ELSE IF UriMalformed(q.word)
             THEN [q EXCEPT !.pc = "crashed", !.snap = snap, !.path = "uriError"]
             ELSE [q EXCEPT !.pc = "getSentenceCache", !.snap = snap,
                            !.key = sentenceCacheKey(q.word, Val(snap.targetLanguage))]]
    /\ UNCHANGED <<settings, cache, changes, pin, pout>>

\* lines 200-212: the cache answers; a hit responds, a miss starts the fetch
SentenceCacheCallback(r) ==
    /\ req[r].pc = "getSentenceCache"
    /\ LET q == req[r]
           read == Append(q.log, "cacheGet")
       IN  req' = [req EXCEPT ![r] =
             IF q.key \in DOMAIN cache
             THEN [q EXCEPT !.pc = "done", !.path = "sentenceHit",
                            !.log = Append(read, "sendResponse"),
                            !.responses = Append(@, Success(cache[q.key], q.snap))]
             ELSE [q EXCEPT !.pc = "translating", !.path = "translate",
                            !.log = Append(read, "fetch translate")]]
    /\ UNCHANGED <<settings, cache, changes, pin, pout>>

\* lines 212-225: what the request sends, and what it stores (a set of at most one value)
TranslatePipeline(o, s) ==
    LET p == JsonPromise(o)
    IN  IF ~p.ok THEN [response |-> Error(p.message), store |-> {}]
        ELSE IF p.v.kind = "null" THEN [response |-> Error(mType), store |-> {}]
        ELSE IF Has(p.v.error) /\ Val(p.v.error) # ""
        THEN [response |-> Error(Val(p.v.error)), store |-> {}]
        ELSE [response |-> Success(p.v, s), store |-> {p.v}]

\* lines 212-225: the translate fetch of request r settles
TranslateSettles(r) ==
    /\ req[r].pc = "translating"
    /\ \E o \in Outcomes(TranslateBodies) :
           LET q == req[r]
               out == TranslatePipeline(o, q.snap)
           IN  /\ cache' = IF out.store = {} THEN cache
                           ELSE StorageSet(cache, q.key, Val(out.store))
               /\ req' = [req EXCEPT ![r] =
                    [q EXCEPT !.pc = "done",
                              !.got = <<o>>,
                              !.log = IF out.store = {} THEN Append(@, "sendResponse")
                                      ELSE @ \o <<"cacheSet", "sendResponse">>,
                              !.responses = Append(@, out.response)]]
    /\ UNCHANGED <<settings, changes, pin, pout>>

----------------------------------------------------------------------------

\* the options page stores new settings; stale records, for a getDefinition request
\* that has read the settings and whose promise has not settled, that they changed
ChangeSettings(s) ==
    /\ changes < MaxChanges
    /\ s # settings
    /\ settings' = s
    /\ changes' = changes + 1
    /\ req' = [r \in Requests |->
                  IF req[r].pc \in {"getCache", "fetching"}
                  THEN [req[r] EXCEPT !.stale = TRUE] ELSE req[r]]
    /\ UNCHANGED <<cache, pin, pout>>

NoInput == <<>>

Init ==
    /\ settings \in SettingsChoices
    /\ cache = <<>>
    /\ req = [r \in Requests |-> IdleRequest]
    /\ changes = 0
    /\ pin = NoInput
    /\ pout = NoInput

Next ==
    \/ \E r \in Requests, term \in Terms : Receive(r, term)
    \/ \E r \in Requests : SettingsCallback(r)
    \/ \E r \in Requests : CacheCallback(r)
    \/ \E r \in Requests : GeminiPhraseSettles(r)
    \/ \E r \in Requests : GeminiWordSettles(r)
    \/ \E r \in Requests : MwSettles(r)
    \/ \E r \in Requests : CambridgeSettles(r)
    \/ \E r \in Requests, text \in Sentences : ReceiveSentence(r, text)
    \/ \E r \in Requests : LanguageCallback(r)
    \/ \E r \in Requests : SentenceCacheCallback(r)
    \/ \E r \in Requests : TranslateSettles(r)
    \/ \E s \in SettingsChoices : ChangeSettings(s)

Spec == Init /\ [][Next]_vars

----------------------------------------------------------------------------
(* Key derivation of two requests, lines 92-98 *)

KeyTerms == { <<"a">>, <<"A">>, <<"a", "_", "a", "l", "l">> }

KeyTags == { sNone, <<"x">>, <<"1", "_", "x">> }

KeySettings ==
    { MkSettings(src, Absent, lang, scope, count, Absent) :
        src \in Opt({sCambridge, sGemini}), lang \in Opt(KeyTags),
        scope \in Opt({sRelevant, sAll}), count \in Opt(0..MaxKeyCount) }

KeyInputs == [word : KeyTerms, s : KeySettings]

\* lines 92-98 for one message and one settings object
KeyOf(in) == displaySettingsCacheKey(toLowerCase(in.word), in.s)

InitKey ==
    /\ pin \in KeyInputs \X KeyInputs
    /\ pout = NoInput
    /\ settings = MkSettings({}, {}, {}, {}, {}, {})
    /\ cache = <<>>
    /\ req = [r \in Requests |-> IdleRequest]
    /\ changes = 0

DeriveKeys ==
    /\ pout = NoInput
    /\ pout' = <<KeyOf(pin[1]), KeyOf(pin[2])>>
    /\ UNCHANGED <<settings, cache, req, changes, pin>>

SpecKey == InitKey /\ [][DeriveKeys]_vars

\* the fields of a request that the lexical key is composed from, as stored
KeyFields(in) ==
    <<sourceOf(in.s), toLowerCase(in.word), in.s.definitionScope, in.s.exampleCount,
      targetLanguageOf(in.s)>>

\* the same fields with an absent scope or count taken as its default
ResolvedFields(in) ==
    <<sourceOf(in.s), toLowerCase(in.word), scopeOf(in.s), countOf(in.s),
      targetLanguageOf(in.s)>>

HasDelimiter(str) == \E i \in 1..Len(str) : str[i] = "_"

\* C1 as stated: two requests that differ in provider, lowercased term, scope,
\* exampleCount or target language never share a key, whatever the term and the tag
\* contain.
C1_DistinctFieldsDistinctKeys ==
    (pout # NoInput /\ KeyFields(pin[1]) # KeyFields(pin[2])) => pout[1] # pout[2]

\* C1 amended: two requests that differ in one of the key's fields have different
\* keys when no field other than the term contains the delimiter "_".
C1_DistinctKeysNoDelimiter ==
    (/\ pout # NoInput
     /\ KeyFields(pin[1]) # KeyFields(pin[2])
     /\ \A i \in 1..2 : ~HasDelimiter(sourceOf(pin[i].s))
                        /\ ~HasDelimiter(targetLanguageOf(pin[i].s)))
    => pout[1] # pout[2]

\* two derived keys of requests that differ only in scope, one term holding "_"
C1_Witness ==
    /\ pout # NoInput
    /\ HasDelimiter(pin[1].word)
    /\ pin[1].word = pin[2].word
    /\ pin[1].s.definitionScope # pin[2].s.definitionScope
    /\ [pin[1].s EXCEPT !.definitionScope = Absent]
         = [pin[2].s EXCEPT !.definitionScope = Absent]
    /\ ~HasDelimiter(targetLanguageOf(pin[1].s))
    /\ pout[1] # pout[2]

\* C2: requests whose terms are equal up to case and whose settings resolve to the
\* same provider, scope, exampleCount and target language, an absent setting counting
\* as its default, derive the same key.
C2_SameResolvedSettingsSameKey ==
    (pout # NoInput /\ ResolvedFields(pin[1]) = ResolvedFields(pin[2])) => pout[1] = pout[2]

----------------------------------------------------------------------------
(* Claims about the getDefinition listener *)

IsFetch(event) ==
    event \in {"fetch gemini", "fetch cambridge audio", "fetch merriam-webster",
               "fetch cambridge"}

Logged(r, event) == \E i \in 1..Len(req[r].log) : req[r].log[i] = event

StartedFetch(r) == \E i \in 1..Len(req[r].log) : IsFetch(req[r].log[i])

Last(seq) == seq[Len(seq)]

\* every fetch of r in the log follows a cache read of r
ReadBeforeFetch(r) ==
    \A i \in 1..Len(req[r].log) :
        IsFetch(req[r].log[i]) => \E j \in 1..(i - 1) : req[r].log[j] = "cacheGet"

\* the step in which the cache callback of r finds a value under r's key
HitStep(r) ==
    /\ req[r].pc = "getCache" /\ req'[r].pc # "getCache"
    /\ req[r].key \in DOMAIN cache

\* the step in which the promise chain of r ends
SettleStep(r) == req[r].pc = "fetching" /\ req'[r].pc = "done"

\* C3, one step: a hit answers success with the cached value, starts no fetch and
\* leaves the cache alone; outside the steps of translateSentence requests, the cache
\* changes only in a step that ends a request with a
\* success response, and the value stored under the request's key is the value sent,
\* which is a projection under the request's settings.
C3_Step ==
    /\ \A r \in Requests :
           HitStep(r) =>
               /\ req'[r].responses = <<Success(cache[req[r].key], req[r].snap)>>
               /\ req'[r].pc = "done"
               /\ ~StartedFetch(r)'
               /\ cache' = cache
    /\ (cache' # cache /\ ~\E r \in Requests : req[r].type = "translateSentence"
                                                   /\ req'[r] # req[r]) =>
           \E r \in Requests :
               /\ SettleStep(r)
               /\ Len(req'[r].responses) = 1
               /\ req'[r].responses[1].status = "success"
               /\ cache' = StorageSet(cache, req[r].key, req'[r].responses[1].data)
               /\ applyDisplayPreferences(req'[r].responses[1].data, req[r].snap)
                    = REntry(req'[r].responses[1].data)

\* C3: the cache is read with the derived key before any fetch is started; a hit is
\* answered with exactly the cached value, without a fetch or a cache write; the cache
\* is written only after a successful adapt-and-project run, with the projected Entry
\* that is also sent.
C3_CacheBeforeFetchAndWriteAfterSuccess ==
    /\ [](\A r \in Requests : ReadBeforeFetch(r))
    /\ [][C3_Step]_vars

\* a request answered from the cache, and another that stored what it sent
C3_Witness ==
    \E r1, r2 \in Requests :
        /\ req[r1].pc = "done" /\ req[r1].path = "hit"
        /\ req[r2].pc = "done" /\ Logged(r2, "cacheSet")
        /\ req[r2].key \in DOMAIN cache
        /\ req[r2].responses[1].data = cache[req[r2].key]

\* the gemini body adapts to an Entry with a headword
Adaptable(o) ==
    /\ o.st = "json"
    /\ normalizeGeminiData(o.body).kind = "entry"
    /\ Has(normalizeGeminiData(o.body).entry.word)
    /\ Val(normalizeGeminiData(o.body).entry.word) # <<>>

\* C4: on the gemini single-word path, when the primary fetch yields an adaptable
\* payload the request answers success however the secondary (cambridge) fetch ends:
\* rejected, unparsable or without pronunciations.
C4_SecondaryFailureTolerated ==
    \A r \in Requests :
        (req[r].pc = "done" /\ req[r].path = "geminiWord" /\ Adaptable(req[r].got[1]))
        => Last(req[r].responses).status = "success"

HasSpace(str) == \E i \in 1..Len(str) : IsSpace(str[i])

\* two characters that are not whitespace with whitespace between them
HasTwoTokens(str) ==
    \E i, j, k \in 1..Len(str) :
        i < j /\ j < k /\ ~IsSpace(str[i]) /\ IsSpace(str[j]) /\ ~IsSpace(str[k])

GeminiRequest(r) ==
    req[r].pc \in {"getCache", "fetching", "done"} /\ sourceOf(req[r].snap) = sGemini

\* C5 as stated: a gemini request whose term contains whitespace anywhere never
\* starts the audio-enrichment fetch.
C5_NoAudioFetchWithWhitespace ==
    \A r \in Requests :
        (GeminiRequest(r) /\ HasSpace(req[r].word)) => ~Logged(r, "fetch cambridge audio")

\* C5 amended: a gemini request whose term has at least two tokens separated by
\* whitespace never starts the audio-enrichment fetch.
C5_NoAudioFetchForPhrase ==
    \A r \in Requests :
        (GeminiRequest(r) /\ HasTwoTokens(req[r].word))
        => ~Logged(r, "fetch cambridge audio")

\* a gemini request for a phrase that fetched from gemini alone and is answered
C5_Witness ==
    \E r \in Requests :
        /\ req[r].pc = "done" /\ GeminiRequest(r) /\ HasTwoTokens(req[r].word)
        /\ req[r].log = <<"cacheGet", "fetch gemini", "sendResponse">>

NoKeyRequest(r) ==
    /\ req[r].pc = "done"
    /\ sourceOf(req[r].snap) = sMerriamWebster
    /\ ~Has(req[r].snap.mwApiKey)

\* C6 as stated: a merriam-webster request without an API key is answered with the
\* configuration error, whatever the cache holds, and starts no fetch.
C6_NoKeyAlwaysConfigurationError ==
    \A r \in Requests :
        NoKeyRequest(r) => (req[r].responses = <<Error(mNoKey)>> /\ ~StartedFetch(r))

\* C6 amended: a merriam-webster request without an API key starts no fetch; it is
\* answered with the configuration error when the cache holds nothing under its key,
\* and with the cached value otherwise.
C6_NoKeyNoFetch ==
    \A r \in Requests :
        NoKeyRequest(r) =>
            /\ ~StartedFetch(r)
            /\ Len(req[r].responses) = 1
            /\ req[r].path # "hit" => req[r].responses = <<Error(mNoKey)>>
            /\ req[r].path = "hit" => req[r].responses[1].status = "success"

\* a request without a key that missed the cache and got the configuration error
C6_Witness ==
    \E r \in Requests :
        /\ NoKeyRequest(r)
        /\ req[r].log = <<"cacheGet", "sendResponse">>
        /\ req[r].responses = <<Error(mNoKey)>>

\* the result of the required provider's adapter, for the outcome o of its fetch
RequiredResult(path, o) ==
    IF o.st # "json" THEN RThrow
    ELSE IF path \in {"geminiPhrase", "geminiWord"} THEN normalizeGeminiData(o.body)
    ELSE IF path = "mw" THEN normalizeMwData(o.body)
    ELSE IF o.body.kind = "null" THEN RNull ELSE REntry(o.body)

\* the required fetch failed, or its payload did not adapt to an Entry with a headword
RequiredFailed(path, o) ==
    LET n == RequiredResult(path, o)
    IN  n.kind # "entry" \/ ~Has(n.entry.word) \/ Val(n.entry.word) = <<>>

\* C8: when the required fetch fails or its payload does not adapt to an Entry with a
\* non-empty headword, the request answers {status: 'error', message}, sends no Entry
\* and leaves the cache unchanged.
C8_RequiredFailureIsError ==
    [][\A r \in Requests :
          (SettleStep(r) /\ RequiredFailed(req[r].path, req'[r].got[1])) =>
              /\ cache' = cache
              /\ Len(req'[r].responses) = 1
              /\ DOMAIN req'[r].responses[1] = {"status", "message"}
              /\ req'[r].responses[1].status = "error"]_vars

\* a request whose gemini payload had forms but no headword, answered with an error
C8_Witness ==
    \E r \in Requests :
        /\ req[r].pc = "done" /\ req[r].path = "geminiWord"
        /\ req[r].got[1].st = "json"
        /\ normalizeGeminiData(req[r].got[1].body).kind = "entry"
        /\ RequiredFailed(req[r].path, req[r].got[1])
        /\ req[r].responses = <<Error(mNotFound)>>
        /\ ~Logged(r, "cacheSet")

\* the settings callback of the translateSentence request r has run
LanguageRead(r) ==
    req[r].type = "translateSentence" /\ req[r].pc \notin {"idle", "getLanguage"}

\* C15: a translateSentence request whose stored targetLanguage is absent or 'none' is
\* answered {status: 'noLanguage', message}; it reads no cache, starts no fetch and
\* writes no cache.
C15_NoLanguageShortCircuit ==
    \A r \in Requests :
        (LanguageRead(r) /\ req[r].snap.targetLanguage \in {Absent, Some(sNone)}) =>
            /\ req[r].pc = "done"
            /\ req[r].responses = <<[status |-> "noLanguage", message |-> mNoLanguage]>>
            /\ req[r].log = <<"sendResponse">>

\* a request answered noLanguage under 'none', and one under an absent language
C15_Witness ==
    \E r1, r2 \in Requests :
        /\ LanguageRead(r1) /\ req[r1].snap.targetLanguage = Some(sNone)
        /\ req[r1].responses = <<NoLanguage>>
        /\ LanguageRead(r2) /\ req[r2].snap.targetLanguage = Absent
        /\ req[r2].responses = <<NoLanguage>>

\* request r waits for a storage callback or for a fetch to settle
Waiting(r) ==
    req[r].pc \in {"getSettings", "getCache", "fetching",
                   "getLanguage", "getSentenceCache", "translating"}

\* C16: every getDefinition and translateSentence request receives exactly one
\* response, tagged success, error or (translateSentence only) noLanguage: no request
\* is sent two responses, and once its storage callbacks have fired and its fetches
\* have settled it has been sent one.
C16_ExactlyOneResponse ==
    \A r \in Requests :
        /\ Len(req[r].responses) <= 1
        /\ \A i \in 1..Len(req[r].responses) :
               \/ req[r].responses[i].status \in {"success", "error"}
               \/ /\ req[r].responses[i].status = "noLanguage"
                  /\ req[r].type = "translateSentence"
        /\ (req[r].type # "none" /\ ~Waiting(r)) => Len(req[r].responses) = 1

\* the Entry e is cut as scope and exampleCount of the settings s demand
ProjectedWith(e, s) ==
    LET def == Val(e.definition)
    IN  /\ scopeOf(s) = sRelevant => Len(def) <= 1
        /\ \A i \in 1..Len(def) :
               Has(def[i].example) => Len(Val(def[i].example)) <= countOf(s)

\* C20: under any interleaving of getDefinition requests and settings changes, every
\* value stored under a lexical key was projected with the scope and exampleCount
\* that the key encodes.
C20_CachedUnderOwnSettings ==
    \A k \in DOMAIN cache :
        \A t \in Terms, s \in SettingsChoices :
            k = displaySettingsCacheKey(toLowerCase(t), s) => ProjectedWith(cache[k], s)

\* the settings changed between a request's settings read and its cache write, to
\* another scope; the value under its key is the one projected from its snapshot
C20_Witness ==
    \E r \in Requests :
        /\ req[r].stale
        /\ req[r].pc = "done" /\ Logged(r, "cacheSet")
        /\ scopeOf(req[r].snap) = sRelevant /\ scopeOf(settings) = sAll
        /\ cache[req[r].key] = req[r].responses[1].data
        /\ req[r].path = "cambridge"
        /\ Len(Val(req[r].got[1].body.definition)) = 2
        /\ Len(Val(cache[req[r].key].definition)) = 1

----------------------------------------------------------------------------
(* applyDisplayPreferences on its own, lines 67-86 *)

ExampleChoices == Opt({CExamples(n) : n \in 0..MaxExamples})

\* the sense at index i, with the examples ex
SenseAt(i, ex) == CSense(<<"p", Digit(i)>>, <<"d", Digit(i)>>, ex)

ProjectDefinitions ==
    UNION { { [i \in 1..n |-> SenseAt(i, f[i])] : f \in [1..n -> ExampleChoices] } :
            n \in 0..MaxSenses }

ProjectEntries ==
    { CData(Some(<<"a">>), Some(<<>>), d) : d \in Opt(ProjectDefinitions) }

ProjectSettings ==
    { MkSettings(Absent, Absent, Absent, scope, count, Absent) :
        scope \in Opt({sRelevant, sAll}), count \in Opt(0..MaxCount) }

InitProject ==
    /\ pin \in [data : ProjectEntries, s : ProjectSettings]
    /\ pout = NoInput
    /\ settings = MkSettings({}, {}, {}, {}, {}, {})
    /\ cache = <<>>
    /\ req = [r \in Requests |-> IdleRequest]
    /\ changes = 0

Project ==
    /\ pout = NoInput
    /\ pout' = applyDisplayPreferences(pin.data, pin.s)
    /\ UNCHANGED <<settings, cache, req, changes, pin>>

\* the Entry that came out is handed to applyDisplayPreferences once more, under the
\* same settings
ProjectAgain ==
    /\ pout # NoInput
    /\ pout.kind = "entry"
    /\ DOMAIN pout = {"kind", "entry"}
    /\ pout' = [kind |-> "entry", entry |-> pout.entry,
                again |-> applyDisplayPreferences(pout.entry, pin.s)]
    /\ UNCHANGED <<settings, cache, req, changes, pin>>

SpecProject == InitProject /\ [][Project \/ ProjectAgain]_vars

Min(a, b) == IF a < b THEN a ELSE b

Projected == pout # NoInput /\ pout.kind = "entry"

\* sense o is sense i with none, some or all of its examples cut from the tail
SameSense(o, i) ==
    /\ o.pos = i.pos /\ o.text = i.text /\ o.translation = i.translation
    /\ Has(o.example) = Has(i.example)
    /\ Has(i.example) =>
           /\ Len(Val(o.example)) <= Len(Val(i.example))
           /\ Val(o.example) = SubSeq(Val(i.example), 1, Len(Val(o.example)))

\* C9: with scope 'relevant' an Entry of N senses projects to min(1, N) senses, the
\* one kept being the input's first; with scope 'all' to all N senses in order.
C9_ScopeSelectsSenses ==
    Projected =>
        LET in == Val(pin.data.definition)
            out == Val(pout.entry.definition)
        IN  /\ pin.s.definitionScope = Some(sRelevant) =>
                   /\ Len(out) = Min(1, Len(in))
                   /\ Len(in) >= 1 => SameSense(out[1], in[1])
            /\ pin.s.definitionScope = Some(sAll) =>
                   /\ Len(out) = Len(in)
                   /\ \A i \in 1..Len(in) : SameSense(out[i], in[i])

\* an Entry of two senses projected with scope 'relevant' to its first sense
C9_Witness ==
    /\ Projected
    /\ pin.s.definitionScope = Some(sRelevant)
    /\ Len(Val(pin.data.definition)) = 2
    /\ Len(Val(pout.entry.definition)) = 1
    /\ Val(pout.entry.definition)[1].text = <<"d", "1">>

\* C10: with exampleCount k >= 0, k being 1 when the setting is absent, every retained
\* sense has exactly the first min(k, length) examples of its input sense.
C10_ExamplesCutToCount ==
    Projected =>
        LET in == Val(pin.data.definition)
            out == Val(pout.entry.definition)
            k == IF Has(pin.s.exampleCount) THEN Val(pin.s.exampleCount) ELSE 1
        IN  \A i \in 1..Len(out) :
                Has(in[i].example) =>
                    /\ Has(out[i].example)
                    /\ Val(out[i].example)
                         = SubSeq(Val(in[i].example), 1, Min(k, Len(Val(in[i].example))))
                    /\ Len(Val(out[i].example)) <= k

\* a sense of three examples cut to its first under an absent exampleCount
C10_Witness ==
    /\ Projected
    /\ ~Has(pin.s.exampleCount)
    /\ Len(Val(pout.entry.definition)) >= 1
    /\ Val(pin.data.definition)[1].example = Some(CExamples(3))
    /\ Val(pout.entry.definition)[1].example = Some(CExamples(1))

ProjectedAgain == Projected /\ "again" \in DOMAIN pout

\* C11: projection is idempotent; projecting the Entry that a projection returned, under
\* the same preferences, returns that Entry unchanged.
C11_ProjectionIdempotent ==
    ProjectedAgain => pout.again = REntry(pout.entry)

\* the first projection dropped a sense and cut examples, the second changed nothing
C11_Witness ==
    /\ ProjectedAgain
    /\ Len(Val(pin.data.definition)) = 2
    /\ Val(pin.data.definition)[1].example = Some(CExamples(3))
    /\ pout.entry # pin.data
    /\ Val(pout.entry.definition) = <<SenseAt(1, Some(CExamples(1)))>>
    /\ pout.again.kind = "entry"

----------------------------------------------------------------------------
(* applyDisplayPreferences on a heap of objects, lines 67-86: what it allocates and *)
(* what it writes. An address is an index of the heap.                             *)

HArray(items) == [t |-> "array", items |-> items]

\* a sense object; its examples array is held by reference
HSense(def, exRef) ==
    [t |-> "object", pos |-> def.pos, text |-> def.text,
     translation |-> def.translation, example |-> exRef]

\* the Entry data laid out as the caller holds it: the examples arrays, the senses, the
\* senses array, the Entry object
Store(data) ==
    LET def == IF Has(data.definition) THEN Val(data.definition) ELSE <<>>
        n == Len(def)
        withEx == {i \in 1..n : Has(def[i].example)}
        m == Cardinality(withEx)
        exAddr(i) == Cardinality({j \in withEx : j <= i})
        nth(k) == CHOOSE i \in withEx : exAddr(i) = k
        exArrays == [k \in 1..m |-> HArray(Val(def[nth(k)].example))]
        senses == [i \in 1..n |->
                      HSense(def[i], IF i \in withEx THEN Some(exAddr(i)) ELSE Absent)]
        objects == exArrays \o senses
        withArray == IF Has(data.definition)
                     THEN Append(objects, HArray([i \in 1..n |-> m + i])) ELSE objects
        heap == Append(withArray,
                       [data EXCEPT !.definition =
                            IF Has(data.definition) THEN Some(Len(withArray)) ELSE Absent])
    IN  [heap |-> heap, root |-> Len(heap)]

\* the sense read through the reference a
LoadSense(h, a) ==
    [pos |-> h[a].pos, text |-> h[a].text, translation |-> h[a].translation,
     example |-> IF Has(h[a].example) THEN Some(h[Val(h[a].example)].items) ELSE Absent]

\* the Entry read through the reference a
Load(h, a) ==
    [h[a] EXCEPT !.definition =
        IF Has(h[a].definition)
        THEN Some([i \in 1..Len(h[Val(h[a].definition)].items) |->
                      LoadSense(h, h[Val(h[a].definition)].items[i])])
        ELSE Absent]

\* newDef = def: the sense itself, no copy
AliasSense(h, ref) == [heap |-> h, ref |-> ref]

\* line 78: newDef = { ...def }
CopySense(h, ref) == [heap |-> Append(h, h[ref]), ref |-> Len(h) + 1]

\* lines 77-83: the map over definitionsToUse; made holds the references returned so far
RECURSIVE MapDefinitions(_, _, _, _)
MapDefinitions(h, refs, count, made) ==
    IF refs = <<>> THEN [heap |-> h, refs |-> made]
    ELSE LET c == CopySense(h, refs[1])
             newDef == c.ref
             example == c.heap[newDef].example
             sliced == Append(c.heap,
                              HArray(SubSeq(c.heap[Val(example)].items, 1, count)))
             h2 == IF Has(example) /\ Len(c.heap[Val(example)].items) > count
                   THEN [sliced EXCEPT ![newDef].example = Some(Len(sliced))]
                   ELSE c.heap
         IN  MapDefinitions(h2, Tail(refs), count, Append(made, newDef))

\* lines 67-86 on the heap h with data at address d; result is the address returned,
\* 0 when the call throws
applyDisplayPreferencesOnHeap(h, d, s) ==
    IF ~Has(h[d].definition) THEN [heap |-> h, result |-> 0]
    ELSE LET h1 == Append(h, HArray(h[Val(h[d].definition)].items))
             h2 == IF scopeOf(s) = sRelevant /\ Len(h1[Len(h1)].items) > 1
                   THEN Append(h1, HArray(<<h1[Len(h1)].items[1]>>))
                   ELSE h1
             mapped == MapDefinitions(h2, h2[Len(h2)].items, countOf(s), <<>>)
             h3 == Append(mapped.heap, HArray(mapped.refs))
             h4 == Append(h3, [h3[d] EXCEPT !.definition = Some(Len(h3))])
         IN  [heap |-> h4, result |-> Len(h4)]

InitHeap ==
    /\ pin \in { [data |-> d, s |-> s, heap |-> Store(d).heap, root |-> Store(d).root] :
                   d \in ProjectEntries, s \in ProjectSettings }
    /\ pout = NoInput
    /\ settings = MkSettings({}, {}, {}, {}, {}, {})
    /\ cache = <<>>
    /\ req = [r \in Requests |-> IdleRequest]
    /\ changes = 0

ProjectOnHeap ==
    /\ pout = NoInput
    /\ pout' = applyDisplayPreferencesOnHeap(pin.heap, pin.root, pin.s)
    /\ UNCHANGED <<settings, cache, req, changes, pin>>

SpecHeap == InitHeap /\ [][ProjectOnHeap]_vars

\* C12: applyDisplayPreferences does not mutate its input; every object the caller
\* held before the call (the Entry, its senses array, each sense, each examples array)
\* is the same after it, so the Entry read through the caller's reference is unchanged.
C12_InputNotMutated ==
    pout # NoInput =>
        /\ SubSeq(pout.heap, 1, Len(pin.heap)) = pin.heap
        /\ Load(pout.heap, pin.root) = pin.data

\* a call that dropped a sense and cut examples: the Entry it returned is the projection
\* and differs from the input
C12_Witness ==
    /\ pout # NoInput
    /\ pout.result # 0
    /\ Len(Val(pin.data.definition)) = 2
    /\ Val(pin.data.definition)[1].example = Some(CExamples(3))
    /\ REntry(Load(pout.heap, pout.result)) = applyDisplayPreferences(pin.data, pin.s)
    /\ Val(Load(pout.heap, pout.result).definition) = <<SenseAt(1, Some(CExamples(1)))>>

----------------------------------------------------------------------------
(* The adapters on their own, lines 16-63 *)

AudioTokens ==
    { <<"b","i","x","1">>, <<"g","g","a">>, <<"_","4","5">>, <<"_","a">>, <<"x","y","z">>,
      <<"g","0">> }

MwPrsChoices ==
    {Absent, Some(<<>>), Some(<<MwPr(Absent, Absent)>>),
     Some(<<MwPr(Some(<<"e","I">>), Some([audio |-> Absent]))>>)}
    \cup {Some(<<MwPr(Some(<<"e","I">>), Some([audio |-> Some(t)]))>>) : t \in AudioTokens}

MwSupplChoices ==
    {Absent, Some([examples |-> Absent]), Some([examples |-> Some(<<>>)]),
     Some([examples |-> Some(<<[t |-> Absent]>>)]),
     Some([examples |-> Some(<<[t |-> Some(<<"{it}","x","{/it}","y">>)]>>)])}

MwVis(vis) == [tag |-> "vis", vis |-> vis]
MwText == [tag |-> "text", vis |-> <<>>]
MwSseq(nested, dt) == [nested |-> nested, dt |-> dt]

MwDefChoices ==
    {Absent, Some(<<>>), Some(<<[sseq |-> Absent]>>),
     Some(<<[sseq |-> Some(MwSseq(FALSE, Absent))]>>),
     Some(<<[sseq |-> Some(MwSseq(TRUE, Absent))]>>),
     Some(<<[sseq |-> Some(MwSseq(TRUE, Some(<<MwText>>)))]>>),
     Some(<<[sseq |-> Some(MwSseq(TRUE, Some(<<MwText, MwVis(<<>>)>>)))]>>),
     Some(<<[sseq |-> Some(MwSseq(TRUE, Some(<<MwText, MwVis(<<[t |-> Absent]>>)>>)))]>>),
     Some(<<[sseq |-> Some(MwSseq(TRUE,
               Some(<<MwText, MwVis(<<[t |-> Some(<<"a","{wi}","x","{/wi}">>)]>>)>>)))]>>)}

MwShortdefChoices == {Absent, Some(<<>>), Some(<<<<>>>>), Some(<<<<"m","1">>, <<"m","2">>>>)}

MwMetaChoices == {Absent, Some([id |-> Absent]), Some([id |-> Some(sIdA)]),
                  Some([id |-> Some(<<"a">>)])}

MwEntry(meta, fl, shortdef, hwi, suppl, def) ==
    [t |-> "object", meta |-> meta, fl |-> fl, shortdef |-> shortdef,
     hwi |-> hwi, suppl |-> suppl, def |-> def]

\* entries that vary in the pronunciation and the headword
MwEntriesByAudio ==
    { MwEntry(meta, Some(<<"n">>), shortdef, hwi, Absent, Absent) :
        meta \in MwMetaChoices, shortdef \in MwShortdefChoices,
        hwi \in {Absent} \cup {Some([prs |-> prs]) : prs \in MwPrsChoices} }

\* entries that vary in the sources of the example
MwEntriesByExample ==
    { MwEntry(Some([id |-> Some(sIdA)]), fl, shortdef, Absent, suppl, def) :
        fl \in Opt({<<"n">>}), shortdef \in MwShortdefChoices \ {Absent},
        suppl \in MwSupplChoices, def \in MwDefChoices }

MwAdaptBodies ==
    {JsonNull, MwArray(<<>>), MwArray(<<MwSuggestion>>), MwArray(<<[t |-> "null"]>>)}
    \cup {MwArray(<<e>>) : e \in MwEntriesByAudio \cup MwEntriesByExample}

GExampleLists ==
    {Absent, Some(<<>>), Some(GExamples(2)), Some(<<GEx(Ex(1)), GExObj(Ex(2), <<"t">>)>>),
     Some(<<GExNull>>)}

GDefinitionLists ==
    {Absent, Some(<<>>)}
    \cup {Some(<<GDef(text, examples)>>) :
            text \in Opt({<<"d","1">>}), examples \in GExampleLists}

GForms == {GForm(pos, defs) : pos \in Opt({<<"n">>}), defs \in GDefinitionLists}

GFormLists ==
    UNION { [1..n -> GForms] : n \in 0..MaxForms }

GeminiAdaptBodies ==
    {JsonNull}
    \cup {GData(word, phrase, pron, forms) :
            word \in Opt({<<"a">>}), phrase \in Opt({<<"a"," ","b">>}),
            pron \in Opt({<<"p">>}), forms \in Opt(GFormLists)}

InitAdapt ==
    /\ pin \in ([provider : {"merriam-webster"}, body : MwAdaptBodies]
                \cup [provider : {"gemini"}, body : GeminiAdaptBodies])
    /\ pout = NoInput
    /\ settings = MkSettings({}, {}, {}, {}, {}, {})
    /\ cache = <<>>
    /\ req = [r \in Requests |-> IdleRequest]
    /\ changes = 0

Adapt ==
    /\ pout = NoInput
    /\ pout' = IF pin.provider = "gemini" THEN normalizeGeminiData(pin.body)
               ELSE normalizeMwData(pin.body)
    /\ UNCHANGED <<settings, cache, req, changes, pin>>

\* settings under which an adapted Entry is projected
AdaptSettings ==
    { MkSettings(Absent, Absent, Absent, scope, Absent, Absent) :
        scope \in Opt({sRelevant, sAll}) }

\* lines 163-168: the Entry the adapter returned is projected, as the listener does
\* before it stores and sends it
ProjectAdapted(s) ==
    /\ pout # NoInput
    /\ pout.kind = "entry"
    /\ DOMAIN pout = {"kind", "entry"}
    /\ pout' = [kind |-> "entry", entry |-> pout.entry, s |-> s,
                projected |-> applyDisplayPreferences(pout.entry, s)]
    /\ UNCHANGED <<settings, cache, req, changes, pin>>

SpecAdapt == InitAdapt /\ [][Adapt \/ \E s \in AdaptSettings : ProjectAdapted(s)]_vars

\* a Provider A payload without an entry record, an identifier or a short-definition list
MwLacksMinimum(body) ==
    \/ body.kind = "null"
    \/ Len(body.items) = 0
    \/ body.items[1].t # "object"
    \/ ~Has(body.items[1].meta)
    \/ ~Has(Val(body.items[1].meta).id)
    \/ ~Has(body.items[1].shortdef)

\* a Provider B payload without forms, or with a form that has no definitions list
GeminiLacksMinimum(body) ==
    \/ body.kind = "null"
    \/ ~Has(body.forms)
    \/ Len(Val(body.forms)) = 0
    \/ \E i \in 1..Len(Val(body.forms)) : ~Has(Val(body.forms)[i].definitions)

\* C7: the adapters never throw; a payload lacking the minimum viable fields is
\* answered with null.
C7_AdaptersNeverThrow ==
    pout # NoInput =>
        /\ pout.kind # "throw"
        /\ (pin.provider = "merriam-webster" /\ MwLacksMinimum(pin.body)) => pout = RNull
        /\ (pin.provider = "gemini" /\ GeminiLacksMinimum(pin.body)) => pout = RNull

\* Provider A adapted the payload's first entry record to an Entry
MwAdapted ==
    /\ pout # NoInput
    /\ pin.provider = "merriam-webster"
    /\ pout.kind = "entry"

MwShortdef == Val(pin.body.items[1].shortdef)

MwSenseText == Val(pout.entry.definition)[1].text

\* C13: Provider A's definition text is the first short definition verbatim whenever
\* the short-definition list is non-empty, the empty string included, and is
\* 'No definition found.' exactly when the list is empty.
C13_FirstShortdefVerbatim ==
    MwAdapted =>
        /\ Len(MwShortdef) > 0 => MwSenseText = MwShortdef[1]
        /\ MwSenseText = sNoDefinitionFound <=> Len(MwShortdef) = 0

\* C13, amended: the definition text is the first short definition verbatim whenever
\* that element is a non-empty string, and is 'No definition found.' when the list is
\* empty or its first element is the empty string.
C13_FirstNonEmptyShortdefVerbatim ==
    MwAdapted =>
        /\ (Len(MwShortdef) > 0 /\ MwShortdef[1] # <<>>) => MwSenseText = MwShortdef[1]
        /\ (Len(MwShortdef) = 0 \/ MwShortdef[1] = <<>>) => MwSenseText = sNoDefinitionFound

\* a list whose first short definition is the empty string, adapted with the fallback
C13_Witness ==
    /\ MwAdapted
    /\ MwShortdef = <<<<>>>>
    /\ MwSenseText = sNoDefinitionFound

\* Provider A adapted an entry record whose first pronunciation names an audio token
MwAdaptedWithAudio ==
    /\ MwAdapted
    /\ Has(pin.body.items[1].hwi)
    /\ Has(Val(pin.body.items[1].hwi).prs)
    /\ Len(Val(Val(pin.body.items[1].hwi).prs)) > 0
    /\ Has(Val(Val(pin.body.items[1].hwi).prs)[1].sound)

MwAudioToken == Val(Val(Val(Val(pin.body.items[1].hwi).prs)[1].sound).audio)

\* the bucket the claim's four rules give, taken in their order
BucketOf(token) ==
    IF Len(token) >= 3 /\ SubSeq(token, 1, 3) = <<"b","i","x">> THEN <<"b","i","x">>
    ELSE IF Len(token) >= 2 /\ SubSeq(token, 1, 2) = <<"g","g">> THEN <<"g","g">>
    ELSE IF Len(token) >= 2 /\ token[1] = "_" /\ \E n \in 0..9 : token[2] = Digit(n)
         THEN <<"number">>
    ELSE SubSeq(token, 1, 1)

\* C14: the audio URL of a Provider A Entry is {base}/us/wav/{bucket}/{token}.wav, the
\* bucket being 'bix' for a token starting with 'bix', else 'gg' for one starting with
\* 'gg', else 'number' for one starting with an underscore and a digit, else the
\* token's first character.
C14_AudioBucketByFirstRule ==
    MwAdaptedWithAudio =>
        pout.entry.pronunciation[1].url
            = sMwAudioBase \o BucketOf(MwAudioToken) \o <<"/">> \o MwAudioToken \o <<".wav">>

\* the token '_45' filed under 'number'
C14_Witness ==
    /\ MwAdaptedWithAudio
    /\ MwAudioToken = <<"_","4","5">>
    /\ pout.entry.pronunciation[1].url
         = sMwAudioBase \o <<"number", "/", "_", "4", "5", ".wav">>

\* the first supplemental example is the one the adapter reads (line 29)
MwReadsSuppl(entry) ==
    /\ Has(entry.suppl) /\ Has(Val(entry.suppl).examples)
    /\ Len(Val(Val(entry.suppl).examples)) > 0

\* the first 'vis' item of the sense has no example text to read
MwVisWithoutText(sseq) ==
    /\ sseq.nested /\ Has(sseq.dt)
    /\ \E i \in 1..Len(Val(sseq.dt)) :
           /\ Val(sseq.dt)[i].tag = "vis"
           /\ \A j \in 1..(i - 1) : Val(sseq.dt)[j].tag # "vis"
           /\ (Len(Val(sseq.dt)[i].vis) = 0 \/ ~Has(Val(sseq.dt)[i].vis[1].t))

\* the example extraction meets a shape it does not expect: a supplemental example
\* without text, an empty def list, a missing or short sseq nesting, a 'vis' item
\* without text
MwExampleMismatch(entry) ==
    IF MwReadsSuppl(entry) THEN ~Has(Val(Val(entry.suppl).examples)[1].t)
    ELSE /\ Has(entry.def)
         /\ \/ Len(Val(entry.def)) = 0
            \/ ~Has(Val(entry.def)[1].sseq)
            \/ ~Val(Val(entry.def)[1].sseq).nested
            \/ MwVisWithoutText(Val(Val(entry.def)[1].sseq))

\* C17: a shape mismatch met in Provider A's optional example extraction yields a
\* successfully adapted Entry with zero examples; the adapter neither throws nor fails.
C17_ExampleMismatchYieldsNoExamples ==
    (/\ pout # NoInput
     /\ pin.provider = "merriam-webster"
     /\ ~MwLacksMinimum(pin.body)
     /\ ~MwPronunciation(pin.body.items[1]).throws
     /\ MwExampleMismatch(pin.body.items[1]))
    => /\ pout.kind = "entry"
       /\ Val(pout.entry.definition)[1].example = Some(<<>>)

----------------------------------------------------------------------------
(* The enrichment merge on its own, lines 134-147 *)

\* the Entries the Provider B adapter returns
GeminiEntries ==
    { normalizeGeminiData(b).entry :
        b \in {x \in GeminiAdaptBodies : normalizeGeminiData(x).kind = "entry"} }

\* pronunciation lists of the cambridge payload
MergePronunciations ==
    { Absent, Some(<<>>), Some(<<CPron(Absent, Absent)>>),
      Some(<<CPron(Some(<<"e","I">>), Some(sUrl))>>),
      Some(<<CPron(Some(<<"e","I">>), Absent), CPron(Some(<<"o">>), Some(sUrl))>>),
      Some(<<CPron(Some(<<>>), Some(<<>>)), CPron(Absent, Some(sUrl))>>) }

MergeBodies ==
    {JsonNull}
    \cup { CData(Some(<<"c">>), p, Some(<<CSense(<<"v">>, <<"c","1">>, Some(CExamples(1)))>>)) :
             p \in MergePronunciations }

InitMerge ==
    /\ pin \in [entry : GeminiEntries, cambridgeData : MergeBodies]
    /\ pout = NoInput
    /\ settings = MkSettings({}, {}, {}, {}, {}, {})
    /\ cache = <<>>
    /\ req = [r \in Requests |-> IdleRequest]
    /\ changes = 0

Merge ==
    /\ pout = NoInput
    /\ pout' = MergeAudio(pin.entry, pin.cambridgeData)
    /\ UNCHANGED <<settings, cache, req, changes, pin>>

SpecMerge == InitMerge /\ [][Merge]_vars

\* the pronunciations of the secondary payload, none when it has no list
SecondaryPronunciations ==
    IF pin.cambridgeData.kind # "null" /\ Has(pin.cambridgeData.pronunciation)
    THEN Val(pin.cambridgeData.pronunciation) ELSE <<>>

\* C18: the merge changes only the first pronunciation slot of the primary Entry: its
\* audio URL is taken from the secondary pronunciations, its phonetic text is copied
\* from them only when the primary's is empty; headword, translation, partsOfSpeech
\* and senses are unchanged.
C18_MergeTouchesFirstPronunciationOnly ==
    pout # NoInput =>
        LET was == pin.entry.pronunciation[1]
            now == pout.pronunciation[1]
            sec == SecondaryPronunciations
        IN  /\ pout.word = pin.entry.word
            /\ pout.translation = pin.entry.translation
            /\ pout.pos = pin.entry.pos
            /\ pout.definition = pin.entry.definition
            /\ pout.verbs = pin.entry.verbs
            /\ Len(pout.pronunciation) = Len(pin.entry.pronunciation)
            /\ \A i \in 2..Len(pout.pronunciation) :
                   pout.pronunciation[i] = pin.entry.pronunciation[i]
            /\ now.lang = was.lang
            /\ was.pron # <<>> => now.pron = was.pron
            /\ now.pron # was.pron => \E j \in 1..Len(sec) : sec[j].pron = Some(now.pron)
            /\ now.url # was.url => \E j \in 1..Len(sec) : sec[j].url = Some(now.url)
            /\ (\E j \in 1..Len(sec) : Has(sec[j].url) /\ Val(sec[j].url) # <<>>) =>
                   \E j \in 1..Len(sec) :
                       /\ sec[j].url = Some(now.url)
                       /\ \A i \in 1..(j - 1) : ~Has(sec[i].url) \/ Val(sec[i].url) = <<>>

\* a primary Entry with phonetic text and two senses that took the audio URL of the
\* second secondary pronunciation and kept its own phonetic text
C18_Witness ==
    /\ pout # NoInput
    /\ pin.entry.pronunciation[1].pron = <<"p">>
    /\ Len(Val(pin.entry.definition)) = 2
    /\ Len(SecondaryPronunciations) = 2
    /\ SecondaryPronunciations[2].pron = Some(<<"o">>)
    /\ pout.pronunciation[1] = [lang |-> <<"u","s">>, pron |-> <<"p">>, url |-> sUrl]

\* C19: every Entry out of the Provider A or Provider B adapter, and every such Entry
\* after projection (the one cached and sent), has as many partsOfSpeech elements as
\* senses.
C19_PartsOfSpeechParallel ==
    (pout # NoInput /\ pout.kind = "entry") =>
        /\ Len(pout.entry.pos) = Len(Val(pout.entry.definition))
        /\ ("projected" \in DOMAIN pout /\ pout.projected.kind = "entry") =>
               Len(pout.projected.entry.pos) = Len(Val(pout.projected.entry.definition))

=============================================================================
